---------------------------- MODULE Spec2Model ----------------------------
(* A model of the UNC course catalog scraper, src/data/scraper/scrape_courses.py. *)
(* A text is a sequence of characters (one-character strings); the character   *)
(* U+00A0 is written NBSP.  Regular expressions are modelled by the search      *)
(* order of Python's backtracking matcher: greedy items take the longest run    *)
(* first, lazy items the shortest first.                                        *)
EXTENDS Integers, Sequences, FiniteSets, TLC

VARIABLES pc, i, j, courses, all_courses, trace, files, fn, arg, ret

vars == <<pc, i, j, courses, all_courses, trace, files, fn, arg, ret>>

-----------------------------------------------------------------------------
(* Characters and strings *)

NBSP == "nbsp"

LowerLetters == <<"a","b","c","d","e","f","g","h","i","j","k","l","m","n","o","p","q","r","s","t","u","v","w","x","y","z">>

UpperLetters == <<"A","B","C","D","E","F","G","H","I","J","K","L","M","N","O","P","Q","R","S","T","U","V","W","X","Y","Z">>

Digits == <<"0","1","2","3","4","5","6","7","8","9">>

Range(s) == {s[k] : k \in DOMAIN s}

SetMin(S) == CHOOSE x \in S : \A y \in S : x <= y

SetMax(S) == CHOOSE x \in S : \A y \in S : x >= y

UpperSet == Range(UpperLetters)

LowerSet == Range(LowerLetters)

DigitSet == Range(Digits)

SpaceSet == {" ", "\n", "\t", NBSP}

IsUpper(c) == c \in UpperSet

IsDigit(c) == c \in DigitSet

IsSpace(c) == c \in SpaceSet

UpperMap ==
    [c \in LowerSet |-> UpperLetters[CHOOSE k \in DOMAIN LowerLetters : LowerLetters[k] = c]]

UpperChar(c) == IF c \in LowerSet THEN UpperMap[c] ELSE c

upper(s) == [k \in DOMAIN s |-> UpperChar(s[k])]

replace_nbsp(s) == [k \in DOMAIN s |-> IF s[k] = NBSP THEN " " ELSE s[k]]

(* re.sub(r'\s+', ' ', s): every run of whitespace becomes one space *)
collapse_ws(s) ==
    LET marked == [k \in DOMAIN s |->
                      [c |-> IF IsSpace(s[k]) THEN " " ELSE s[k],
                       more |-> k > 1 /\ IsSpace(s[k]) /\ IsSpace(s[k - 1])]]
        kept == SelectSeq(marked, LAMBDA e : ~e.more)
    IN  [k \in DOMAIN kept |-> kept[k].c]

strip(s) ==
    LET keep == {k \in DOMAIN s : ~IsSpace(s[k])}
    IN  IF keep = {} THEN <<>> ELSE SubSeq(s, SetMin(keep), SetMax(keep))

normalize(raw) == strip(collapse_ws(replace_nbsp(raw)))

(* sub in s *)
Contains(s, sub) ==
    \E k \in 1..(Len(s) - Len(sub) + 1) : \A m \in DOMAIN sub : s[k + m - 1] = sub[m]

DigitValue == [c \in DigitSet |-> (CHOOSE k \in DOMAIN Digits : Digits[k] = c) - 1]

RECURSIVE ParseInt(_)
ParseInt(ds) ==
    IF ds = <<>> THEN 0
    ELSE 10 * ParseInt(SubSeq(ds, 1, Len(ds) - 1)) + DigitValue[ds[Len(ds)]]

-----------------------------------------------------------------------------
(* Program constants *)

GENED_PATTERNS == <<
    <<"F","Y","-","L","A","U","N","C","H">>, <<"F","Y","-","S","E","M","I","N","A","R">>, <<"F","Y","-","W","R","I","T","I","N","G">>, <<"F","Y","-","D","A","T","A">>, <<"F","Y","-","T","H","R","I","V","E">>,
    <<"F","C","-","A","E","S","T","H">>, <<"F","C","-","C","R","E","A","T","E">>, <<"F","C","-","P","A","S","T">>, <<"F","C","-","V","A","L","U","E","S">>, <<"F","C","-","G","L","O","B","A","L">>,
    <<"F","C","-","N","A","T","S","C","I">>, <<"F","C","-","P","O","W","E","R">>, <<"F","C","-","Q","U","A","N","T">>, <<"F","C","-","K","N","O","W","I","N","G">>, <<"F","C","-","L","A","B">>,
    <<"G","L","B","L","-","L","A","N","G">>, <<"R","E","S","E","A","R","C","H">>, <<"H","I","G","H","-","I","M","P","A","C","T">>, <<"C","O","M","M","B","E","Y","O","N","D">>, <<"I","N","T","E","R","D","I","S","C">>,
    <<"L","I","F","E","-","F","I","T">>, <<"C","A","M","P","U","S","-","L","I","F","E">>, <<"A","M","E","R","-","D","E","M">> >>

ARTS_SCIENCES_DEPTS == <<
    "aaad", "amst", "anth", "arab", "arch", "arth", "arts", "asia", "astr",
    "biol", "chem", "chin", "clas", "clar", "comm", "cmpl", "comp", "data",
    "dram", "econ", "engl", "enec", "exss", "folk", "fren", "geog", "geol",
    "germ", "glbl", "grek", "hebr", "hist", "ital", "japn", "jwst", "kor",
    "latn", "lfit", "ling", "ltam", "math", "musc", "phil", "phys", "poli",
    "port", "psyc", "pwad", "reli", "roml", "russ", "soci", "span", "stor",
    "wgst" >>

None == [type |-> "NoneType"]

-----------------------------------------------------------------------------
(* extract_geneds *)

(* the patterns that occur in text.upper(), in the order of GENED_PATTERNS *)
GenedsIn(upper_text) == SelectSeq(GENED_PATTERNS, LAMBDA pattern : Contains(upper_text, pattern))

(* if pattern in text: the text not uppercased *)
extract_geneds_raw(text) == GenedsIn(text)

extract_geneds(text) == GenedsIn(upper(text))

-----------------------------------------------------------------------------
(* Regular expressions, matched as Python's re matches them: a backtracking    *)
(* search that tries the items of a pattern left to right, a greedy item with  *)
(* its longest run first, a lazy item with its shortest first, the branches of *)
(* an alternation in order, and takes the first way that matches.              *)

Unbounded == -1

AnyChar == [neg |-> TRUE, set |-> {"\n"}]

In(S) == [neg |-> FALSE, set |-> S]

Rep(cls, lo, hi, lazy) == [kind |-> "rep", cls |-> cls, lo |-> lo, hi |-> hi, lazy |-> lazy]

Plus(S) == Rep(In(S), 1, Unbounded, FALSE)

Star(S) == Rep(In(S), 0, Unbounded, FALSE)

Maybe(S) == Rep(In(S), 0, 1, FALSE)

LazyPlus(cls) == Rep(cls, 1, Unbounded, TRUE)

Lit(str) == [kind |-> "lit", str |-> str]

Open(g) == [kind |-> "open", g |-> g]

Close(g) == [kind |-> "close", g |-> g]

Opt(items) == [kind |-> "opt", items |-> items]

Alt(alts) == [kind |-> "alt", alts |-> alts]

EndOfString == [kind |-> "end"]

NoMatch == [ok |-> FALSE]

SameChar(c, x, ci) == IF ci THEN UpperChar(c) = UpperChar(x) ELSE c = x

ClassHas(cls, c, ci) == (\E x \in cls.set : SameChar(c, x, ci)) # cls.neg

(* How many characters from pos on lie in cls, at most hi. *)
RunLen(t, pos, cls, hi, ci) ==
    LET stop == SetMin({q \in pos..(Len(t) + 1) : q = Len(t) + 1 \/ ~ClassHas(cls, t[q], ci)})
    IN  IF hi # Unbounded /\ stop - pos > hi THEN hi ELSE stop - pos

LitAt(t, pos, str, ci) ==
    /\ pos + Len(str) - 1 <= Len(t)
    /\ \A m \in DOMAIN str : SameChar(t[pos + m - 1], str[m], ci)

(* Of the tries that matched, the one the search order reaches first. *)
FirstTry(tries, ascending) ==
    LET oks == {r \in tries : r.m.ok}
    IN  IF oks = {} THEN NoMatch
        ELSE (CHOOSE r \in oks : \A r2 \in oks : IF ascending THEN r.at <= r2.at ELSE r.at >= r2.at).m

RECURSIVE Match(_, _, _, _, _)
Match(items, t, pos, caps, ci) ==
    IF items = <<>> THEN [ok |-> TRUE, end |-> pos, caps |-> caps]
    ELSE LET it == Head(items)
             rest == Tail(items)
         IN  CASE it.kind = "rep" ->
                    FirstTry({[at |-> n, m |-> Match(rest, t, pos + n, caps, ci)] :
                                 n \in it.lo..RunLen(t, pos, it.cls, it.hi, ci)}, it.lazy)
               [] it.kind = "lit" ->
                    IF LitAt(t, pos, it.str, ci)
                    THEN Match(rest, t, pos + Len(it.str), caps, ci) ELSE NoMatch
               [] it.kind = "open" ->
                    Match(rest, t, pos, [caps EXCEPT ![it.g].from = pos], ci)
               [] it.kind = "close" ->
                    Match(rest, t, pos, [caps EXCEPT ![it.g].to = pos - 1], ci)
               [] it.kind = "opt" ->
                    FirstTry({[at |-> 1, m |-> Match(it.items \o rest, t, pos, caps, ci)],
                              [at |-> 2, m |-> Match(rest, t, pos, caps, ci)]}, TRUE)
               [] it.kind = "alt" ->
                    FirstTry({[at |-> k, m |-> Match(it.alts[k] \o rest, t, pos, caps, ci)] :
                                 k \in DOMAIN it.alts}, TRUE)
               [] it.kind = "end" ->
                    IF pos = Len(t) + 1 \/ (pos = Len(t) /\ t[pos] = "\n")
                    THEN Match(rest, t, pos, caps, ci) ELSE NoMatch

NoGroups == [g \in 1..4 |-> [from |-> 1, to |-> 0]]

re_match(pattern, t, ci) == Match(pattern, t, 1, NoGroups, ci)

re_search(pattern, t, ci) ==
    FirstTry({[at |-> pos, m |-> Match(pattern, t, pos, NoGroups, ci)] :
                 pos \in 1..(Len(t) + 1)}, TRUE)

group(m, t, g) == SubSeq(t, m.caps[g].from, m.caps[g].to)

(* ([A-Z]+)\s+(\d+[A-Z]?)\.\s*(.+?)\.\s*(\d+(?:-\d+)?)\s*Credits?\. *)
COURSE_RE ==
    <<Open(1), Plus(UpperSet), Close(1), Plus(SpaceSet),
      Open(2), Plus(DigitSet), Maybe(UpperSet), Close(2), Lit(<<".">>),
      Star(SpaceSet), Open(3), LazyPlus(AnyChar), Close(3), Lit(<<".">>),
      Star(SpaceSet), Open(4), Plus(DigitSet), Opt(<<Lit(<<"-">>), Plus(DigitSet)>>), Close(4),
      Star(SpaceSet), Lit(<<"C","r","e","d","i","t">>), Maybe({"s"}), Lit(<<".">>)>>

(* Credits?\.\s*(.+?)(?:Rules\s*&\s*Requirements|Grading\s*Status|Repeat\s*Rules|$) *)
DESC_RE ==
    <<Lit(<<"C","r","e","d","i","t">>), Maybe({"s"}), Lit(<<".">>),
      Star(SpaceSet), Open(1), LazyPlus(AnyChar), Close(1),
      Alt(<< <<Lit(<<"R","u","l","e","s">>), Star(SpaceSet), Lit(<<"&">>), Star(SpaceSet), Lit(<<"R","e","q","u","i","r","e","m","e","n","t","s">>)>>,
             <<Lit(<<"G","r","a","d","i","n","g">>), Star(SpaceSet), Lit(<<"S","t","a","t","u","s">>)>>,
             <<Lit(<<"R","e","p","e","a","t">>), Star(SpaceSet), Lit(<<"R","u","l","e","s">>)>>,
             <<EndOfString>> >>)>>

-----------------------------------------------------------------------------
(* parse_course_block *)

(* A block is a div element with its text, or an object without get_text. *)
Tag(text) == [name |-> "div", text |-> text]

(* The outcome of a call: the value returned, or the exception raised. *)
Return(v) == [raised |-> FALSE, value |-> v]

Raise(exc) == [raised |-> TRUE, exc |-> exc]

get_text(block) == IF block = None THEN Raise("AttributeError") ELSE Return(block.text)

(* credits.split("-")[1] when the credits hold a hyphen *)
resolve_credits(credits) ==
    IF "-" \in Range(credits)
    THEN LET h == SetMin({k \in DOMAIN credits : credits[k] = "-"})
             rest == SubSeq(credits, h + 1, Len(credits))
             h2 == {k \in DOMAIN rest : rest[k] = "-"}
         IN  IF h2 = {} THEN rest ELSE SubSeq(rest, 1, SetMin(h2) - 1)
    ELSE credits

DescriptionOf(full_text, desc_match) ==
    strip(collapse_ws(IF desc_match.ok THEN strip(group(desc_match, full_text, 1)) ELSE <<>>))

describe(full_text) == DescriptionOf(full_text, re_search(DESC_RE, full_text, TRUE))

CourseOf(full_text, match) ==
    IF ~match.ok THEN Return(None)
    ELSE Return([key         |-> group(match, full_text, 1) \o group(match, full_text, 2),
                 prefix      |-> group(match, full_text, 1),
                 number      |-> group(match, full_text, 2),
                 title       |-> strip(group(match, full_text, 3)),
                 credits     |-> ParseInt(resolve_credits(group(match, full_text, 4))),
                 description |-> describe(full_text),
                 geneds      |-> extract_geneds(full_text)])

ParseText(full_text) == CourseOf(full_text, re_match(COURSE_RE, full_text, FALSE))

ParseGot(got) == IF got.raised THEN got ELSE ParseText(normalize(got.value))

(* The body of the try statement: a record or None returned, or the exception. *)
parse_body(block) == ParseGot(get_text(block))

Catch(outcome, handled) == IF outcome.raised THEN handled ELSE outcome

(* parse_course_block without its except clause *)
parse_course_block_reraise(block) == parse_body(block)

(* except Exception: return None *)
parse_course_block(block) == Catch(parse_body(block), Return(None))

-----------------------------------------------------------------------------
(* scrape_department and main *)

NumDepts == 2

MaxBlocks == 2

SLEEP_MS == 300

Depts == SubSeq(ARTS_SCIENCES_DEPTS, 1, NumDepts)

(* The course blocks a department page may hold. *)
PageTexts == {
    <<"E","N","G","L"," ","1","0","5","."," ","C","o","m","p","."," ","3"," ","C","r","e","d","i","t","s","."," ","W","r","i","t","i","n","g",".">>,
    <<"\n","E","N","G","L",NBSP,"1","0","5","."," "," ","R","h","e","t","."," ","1","-","3"," ","C","r","e","d","i","t","s",".","G","r","a","d","i","n","g"," ","S","t","a","t","u","s">>,
    <<"C","O","M","P"," ","1","1","0","H","."," ","D","a","t","a","."," ","1"," ","C","r","e","d","i","t","."," ","f","c","-","q","u","a","n","t"," ","F","C","-","L","A","B">> }

RECURSIVE SeqsUpTo(_, _)
SeqsUpTo(S, n) ==
    IF n = 0 THEN {<<>>}
    ELSE LET shorter == SeqsUpTo(S, n - 1)
         IN  shorter \cup {Append(q, x) : q \in shorter, x \in S}

(* What get_soup gives for a URL: the page's course blocks, or the exception   *)
(* of requests.get or of raise_for_status.                                      *)
ResponsesOver(texts) ==
    {[ok |-> TRUE, blocks |-> bs] : bs \in SeqsUpTo({Tag(t) : t \in texts}, MaxBlocks)}
    \cup {[ok |-> FALSE, exc |-> e] : e \in {"ConnectionError", "HTTPError"}}

Responses == ResponsesOver(PageTexts)

get_soup(resp) == IF resp.ok THEN Return(resp.blocks) ELSE Raise(resp.exc)

(* for block in course_blocks, from the k-th block on, courses collected so far *)
RECURSIVE ParseBlocks(_, _, _)
RECURSIVE AddCourse(_, _, _, _)
ParseBlocks(course_blocks, k, courses_) ==
    IF k > Len(course_blocks) THEN Return(courses_)
    ELSE AddCourse(course_blocks, k, courses_, parse_course_block(course_blocks[k]))

(* if course: courses.append(course) *)
AddCourse(course_blocks, k, courses_, course) ==
    IF course.raised THEN course
    ELSE ParseBlocks(course_blocks, k + 1,
                     IF course.value # None THEN Append(courses_, course.value) ELSE courses_)

ScrapeSoup(soup) == IF soup.raised THEN soup ELSE ParseBlocks(soup.value, 1, <<>>)

(* The body of the try statement of scrape_department. *)
scrape_body(resp) == ScrapeSoup(get_soup(resp))

(* scrape_department without its except clause *)
scrape_department_reraise(resp) == scrape_body(resp)

(* except Exception: print the error, return [] *)
scrape_department(resp) == Catch(scrape_body(resp), Return(<<>>))

(* A dict: its entries in insertion order, one per key. *)
dict_keys(d) == {d[k].key : k \in DOMAIN d}

dict_get(d, key) == d[CHOOSE k \in DOMAIN d : d[k].key = key].value

(* all_courses.setdefault(key, course): the first record of a key stays *)
dict_set_first(d, key, value) ==
    IF key \in dict_keys(d) THEN d ELSE Append(d, [key |-> key, value |-> value])

dict_set(d, key, value) ==
    IF key \in dict_keys(d)
    THEN [k \in DOMAIN d |-> IF d[k].key = key THEN [key |-> key, value |-> value] ELSE d[k]]
    ELSE Append(d, [key |-> key, value |-> value])

(* course["key"] read and not popped *)
pop_key_keep(course) == course

pop_key(course) == [f \in DOMAIN course \ {"key"} |-> course[f]]

FIELD_ORDER == <<"key", "prefix", "number", "title", "credits", "description", "geneds">>

json_object(v) ==
    LET fields == SelectSeq(FIELD_ORDER, LAMBDA f : f \in DOMAIN v)
    IN  [k \in DOMAIN fields |-> <<fields[k], v[fields[k]]>>]

json_dump(d) == [k \in DOMAIN d |-> <<d[k].key, json_object(d[k].value)>>]

(* A file as open(path, "w") and json.dump leave it. *)
File(content) == [content |-> content]

Url(dept) == <<"https://catalog.unc.edu", "/courses/", dept, "/">>

Init ==
    /\ pc = "scrape"
    /\ i = 0
    /\ j = 1
    /\ courses = <<>>
    /\ all_courses = <<>>
    /\ trace = <<>>
    /\ files = [p \in {"courses.json", "courses_backup.json"} |-> None]
    /\ fn = "main"
    /\ arg = None
    /\ ret = None

(* scrape_department of every response, evaluated once *)
Scraped == [resp \in Responses |-> scrape_department(resp)]

(* A failed fetch tried a second time. *)
ScrapeDepartmentRetry ==
    /\ pc = "scrape"
    /\ \E resp \in Responses :
          LET r == Scraped[resp]
              get == [op |-> "get", url |-> Url(Depts[i + 1]), dept |-> Depts[i + 1],
                      resp |-> resp]
          IN  /\ courses' = IF r.raised THEN courses ELSE r.value
              /\ pc' = IF r.raised THEN "aborted" ELSE "fold"
              /\ trace' = IF resp.ok THEN Append(trace, get) ELSE trace \o <<get, get>>
    /\ j' = 1
    /\ UNCHANGED <<i, all_courses, files, fn, arg, ret>>

(* courses = scrape_department(dept) *)
ScrapeDepartment ==
    /\ pc = "scrape"
    /\ \E resp \in Responses :
          LET r == Scraped[resp]
          IN  /\ courses' = IF r.raised THEN courses ELSE r.value
              /\ pc' = IF r.raised THEN "aborted" ELSE "fold"
              /\ trace' = Append(trace, [op |-> "get", url |-> Url(Depts[i + 1]),
                                          dept |-> Depts[i + 1], resp |-> resp])
    /\ j' = 1
    /\ UNCHANGED <<i, all_courses, files, fn, arg, ret>>

(* One iteration of: for course in courses *)
Fold ==
    /\ pc = "fold"
    /\ j <= Len(courses)
    /\ LET course == courses[j]
           key == course.key
       IN  /\ courses' = [courses EXCEPT ![j] = pop_key(course)]
           /\ all_courses' = dict_set(all_courses, key, pop_key(course))
    /\ j' = j + 1
    /\ UNCHANGED <<pc, i, trace, files, fn, arg, ret>>

(* time.sleep(0.3) under "if courses:" *)
SleepAfterCourses ==
    /\ pc = "fold"
    /\ j > Len(courses)
    /\ trace' = IF courses # <<>> THEN Append(trace, [op |-> "sleep", ms |-> SLEEP_MS])
                 ELSE trace
    /\ i' = i + 1
    /\ pc' = IF i + 1 < Len(Depts) THEN "scrape" ELSE "export"
    /\ UNCHANGED <<j, courses, all_courses, files, fn, arg, ret>>

(* The mapping saved to the primary path at the end of every iteration. *)
SleepCheckpoint ==
    /\ pc = "fold"
    /\ j > Len(courses)
    /\ trace' = Append(trace, [op |-> "sleep", ms |-> SLEEP_MS])
    /\ files' = [files EXCEPT !["courses.json"] = File(json_dump(all_courses))]
    /\ i' = i + 1
    /\ pc' = IF i + 1 < Len(Depts) THEN "scrape" ELSE "export"
    /\ UNCHANGED <<j, courses, all_courses, fn, arg, ret>>

(* time.sleep(0.3), and the loop's next department or its end *)
Sleep ==
    /\ pc = "fold"
    /\ j > Len(courses)
    /\ trace' = Append(trace, [op |-> "sleep", ms |-> SLEEP_MS])
    /\ i' = i + 1
    /\ pc' = IF i + 1 < Len(Depts) THEN "scrape" ELSE "export"
    /\ UNCHANGED <<j, courses, all_courses, files, fn, arg, ret>>

WritePrimary ==
    /\ pc = "export"
    /\ files' = [files EXCEPT !["courses.json"] = File(json_dump(all_courses))]
    /\ trace' = Append(trace, [op |-> "write", path |-> "courses.json"])
    /\ pc' = "backup"
    /\ UNCHANGED <<i, j, courses, all_courses, fn, arg, ret>>

WriteBackup ==
    /\ pc = "backup"
    /\ files' = [files EXCEPT !["courses_backup.json"] = File(json_dump(all_courses))]
    /\ trace' = Append(trace, [op |-> "write", path |-> "courses_backup.json"])
    /\ pc' = "done"
    /\ UNCHANGED <<i, j, courses, all_courses, fn, arg, ret>>

Next == ScrapeDepartment \/ Fold \/ Sleep \/ WritePrimary \/ WriteBackup

Spec == Init /\ [][Next]_vars

(* main is one sequential thread: a step that can be taken is taken. *)
FairSpec == Spec /\ WF_vars(Next)

-----------------------------------------------------------------------------
(* Calls of parse_course_block and extract_geneds on their own *)

MaxCredit == 1

MaxPieces == 3

RECURSIVE ToDigits(_)
ToDigits(n) ==
    IF n < 10 THEN <<Digits[n + 1]>> ELSE ToDigits(n \div 10) \o <<Digits[(n % 10) + 1]>>

CreditValues == (0..MaxCredit) \cup {10 + MaxCredit}

CreditTexts ==
    {ToDigits(a) : a \in CreditValues}
    \cup {ToDigits(a) \o <<"-">> \o ToDigits(b) : a \in CreditValues, b \in CreditValues}

Heads == {<<"E","N","G","L"," ","1","0","5","."," ">>, <<"\n"," ","C","O","M","P",NBSP,"1","1","0","H",".">>, <<"E","n","g","l"," ","1","0","5","."," ">>, <<"C","o","u","r","s","e","s"," ","i","n"," ">>}

Titles == {<<"C","o","m","p">>, <<"T","r","a","n","s","f","e","r"," ","c","r","e","d","i","t">>, <<"U",".","S","."," ","H","i","s","t">>, <<>>}

CreditStmts ==
    {<<"."," ">> \o c \o <<" ","C","r","e","d","i","t","s",".">> : c \in CreditTexts}
    \cup {<<"."," ","1",NBSP,"C","r","e","d","i","t",".">>, <<"."," ","3"," ","c","r","e","d","i","t","s",".">>, <<"."," ","3"," ","H","o","u","r","s",".">>, <<>>}

Tails == {<<>>,
          <<" ","W","r","i","t","i","n","g",".">>,
          <<" ","W","r","i","t","i","n","g","."," ","R","u","l","e","s"," ","&"," ","R","e","q","u","i","r","e","m","e","n","t","s",":"," ","n","o","n","e">>,
          <<" ","R","u","l","e","s"," ","&"," ","R","e","q","u","i","r","e","m","e","n","t","s">>,
          <<"R","e","p","e","a","t"," ","R","u","l","e","s">>,
          <<"\n","D","a","t","a","\t"," ","l","a","b","."," ","F","C","-","Q","U","A","N","T",","," ","f","c","-","g","l","o","b","a","l",".",NBSP,"G","R","A","D","I","N","G"," "," ","S","T","A","T","U","S",":"," ","L","e","t","t","e","r","."," ","R","e","p","e","a","t"," ","r","u","l","e","s">>}

BlockTexts == {h \o ti \o c \o ta : h \in Heads, ti \in Titles, c \in CreditStmts, ta \in Tails}

BlockInputs == {Tag(t) : t \in BlockTexts} \cup {None}

GenedPieces == {<<"F","C","-","Q","U","A","N","T">>, <<"f","c","-","G","l","o","b","a","l">>, <<"r","e","s","e","a","r","c","h">>, <<"F","C","-","L","A">>, <<"B">>, <<" ">>}

RECURSIVE Flatten(_)
Flatten(ss) == IF ss = <<>> THEN <<>> ELSE Head(ss) \o Flatten(Tail(ss))

GenedInputs == {Flatten(ps) : ps \in SeqsUpTo(GenedPieces, MaxPieces)}

(* Pages that also hold a block that is no course. *)
PageInputs == ResponsesOver(PageTexts \cup {<<"C","o","u","r","s","e","s"," ","i","n"," ","E","n","g","l","i","s","h">>})

InitFn ==
    /\ pc = "call"
    /\ fn \in {"parse_course_block", "extract_geneds", "scrape_department"}
    /\ arg \in CASE fn = "parse_course_block" -> BlockInputs
               [] fn = "extract_geneds" -> GenedInputs
               [] fn = "scrape_department" -> PageInputs
    /\ ret = None
    /\ i = 0
    /\ j = 1
    /\ courses = <<>>
    /\ all_courses = <<>>
    /\ trace = <<>>
    /\ files = [p \in {"courses.json", "courses_backup.json"} |-> None]

CallParseCourseBlock ==
    /\ pc = "call"
    /\ fn = "parse_course_block"
    /\ ret' = parse_course_block(arg)
    /\ pc' = "return"
    /\ UNCHANGED <<i, j, courses, all_courses, trace, files, fn, arg>>

CallExtractGeneds ==
    /\ pc = "call"
    /\ fn = "extract_geneds"
    /\ ret' = Return(extract_geneds(arg))
    /\ pc' = "return"
    /\ UNCHANGED <<i, j, courses, all_courses, trace, files, fn, arg>>

CallScrapeDepartment ==
    /\ pc = "call"
    /\ fn = "scrape_department"
    /\ ret' = scrape_department(arg)
    /\ pc' = "return"
    /\ UNCHANGED <<i, j, courses, all_courses, trace, files, fn, arg>>

NextFn == CallParseCourseBlock \/ CallExtractGeneds \/ CallScrapeDepartment

SpecFn == InitFn /\ [][NextFn]_vars

-----------------------------------------------------------------------------
(* Properties *)

(* The fetches of the run so far, in order. *)
Gets == SelectSeq(trace, LAMBDA e : e.op = "get")

Writes == SelectSeq(trace, LAMBDA e : e.op = "write")

Failed(e) == e.op = "get" /\ ~e.resp.ok

(* The last thing main did was a fetch that failed. *)
JustFailed == trace # <<>> /\ Failed(trace[Len(trace)])

Exported == pc \in {"export", "backup", "done"}

(* C1: a department whose fetch raises gives an empty list and leaves          *)
(* all_courses as it was, from the fetch to the end of its iteration, and main *)
(* goes on: the run reaches the export only with every department fetched.     *)
C1_FailedFetchContributesNothing ==
    /\ [][/\ (pc = "scrape" /\ JustFailed') =>
                /\ pc' = "fold"
                /\ courses' = <<>>
                /\ all_courses' = all_courses
          /\ (pc = "fold" /\ JustFailed) =>
                /\ all_courses' = all_courses
                /\ i' = i + 1
                /\ pc' = IF i + 1 < NumDepts THEN "scrape" ELSE "export"]_vars
    /\ [](Exported => Len(Gets) = NumDepts)

C1_Witness ==
    /\ pc = "export"
    /\ Len(Gets) = NumDepts
    /\ Failed(Gets[1])
    /\ Gets[NumDepts].resp.ok
    /\ all_courses # <<>>

FirstNot(t, k, S) == SetMin({m \in k..(Len(t) + 1) : m > Len(t) \/ t[m] \notin S})

At(t, k, c) == k \in DOMAIN t /\ t[k] = c

(* ". 3 Credits." or ". 1-3 Credit." from position k on *)
CreditsStatementAt(t, k) ==
    LET a == FirstNot(t, k + 1, SpaceSet)
        b == FirstNot(t, a, DigitSet)
        c == IF At(t, b, "-") /\ b + 1 \in DOMAIN t /\ t[b + 1] \in DigitSet
             THEN FirstNot(t, b + 1, DigitSet) ELSE b
        e == FirstNot(t, c, SpaceSet)
    IN  /\ At(t, k, ".")
        /\ b > a
        /\ \A m \in 1..6 : At(t, e + m - 1, <<"C","r","e","d","i","t">>[m])
        /\ \/ At(t, e + 6, ".")
           \/ At(t, e + 6, "s") /\ At(t, e + 7, ".")

(* The text starts with a prefix, a number, a title and a credits statement. *)
IsCourseText(t) ==
    LET p == FirstNot(t, 1, UpperSet)
        s == FirstNot(t, p, SpaceSet)
        d == FirstNot(t, s, DigitSet)
        n == IF At(t, d, ".") THEN d ELSE d + 1
        sp == FirstNot(t, n + 1, SpaceSet)
    IN  /\ p > 1
        /\ s > p
        /\ d > s
        /\ At(t, n, ".")
        /\ n = d \/ t[d] \in UpperSet
        /\ \E ts \in (n + 1)..sp : \E te \in ts..Len(t) :
              /\ \A m \in ts..te : t[m] # "\n"
              /\ CreditsStatementAt(t, te + 1)

IsCourse(v) ==
    /\ DOMAIN v = {"key", "prefix", "number", "title", "credits", "description", "geneds"}
    /\ v.prefix # <<>>
    /\ v.number # <<>>
    /\ v.key = v.prefix \o v.number
    /\ v.credits \in Nat

CourseBlocks(blocks) == SelectSeq(blocks, LAMBDA b : IsCourseText(normalize(b.text)))

(* C2: parse_course_block never raises; it returns a populated record or None, *)
(* and None whenever the normalized text does not start with the course        *)
(* pattern; scrape_department returns the records of the other blocks, those   *)
(* after such a block included.                                                *)
C2_ParseNeverRaises ==
    /\ (pc = "return" /\ fn = "parse_course_block") =>
          /\ ~ret.raised
          /\ ret.value = None \/ IsCourse(ret.value)
          /\ (arg = None \/ ~IsCourseText(normalize(arg.text))) => ret.value = None
    /\ (pc = "return" /\ fn = "scrape_department" /\ arg.ok) =>
          /\ ~ret.raised
          /\ Len(ret.value) = Len(CourseBlocks(arg.blocks))
          /\ \A k \in DOMAIN ret.value :
                /\ IsCourse(ret.value[k])
                /\ Return(ret.value[k]) = parse_course_block(CourseBlocks(arg.blocks)[k])

C2_Witness ==
    /\ pc = "return"
    /\ fn = "parse_course_block"
    /\ arg = None
    /\ ret = Return(None)

Parsed == pc = "return" /\ fn = "parse_course_block" /\ ret.value # None

(* The credits as the source text writes them: "3" or "1-3". *)
CreditsWritten(t) == group(re_match(COURSE_RE, t, FALSE), t, 4)

Endpoints(c) ==
    LET h == {k \in DOMAIN c : c[k] = "-"}
    IN  IF h = {} THEN {ParseInt(c)}
        ELSE {ParseInt(SubSeq(c, 1, SetMin(h) - 1)), ParseInt(SubSeq(c, SetMin(h) + 1, Len(c)))}

(* C3: the credits of a record are the maximum endpoint of the range the text  *)
(* writes, whichever endpoint comes first, and the value itself when the text  *)
(* writes one value.                                                           *)
C3_CreditsAreMaximum ==
    Parsed => ret.value.credits = SetMax(Endpoints(CreditsWritten(normalize(arg.text))))

(* A range written with the larger value first. *)
C3_Witness ==
    /\ Parsed
    /\ ret.value.credits < SetMax(Endpoints(CreditsWritten(normalize(arg.text))))

BoundaryPhrases == {<<"R","u","l","e","s"," ","&"," ","R","e","q","u","i","r","e","m","e","n","t","s">>, <<"G","r","a","d","i","n","g"," ","S","t","a","t","u","s">>, <<"R","e","p","e","a","t"," ","R","u","l","e","s">>}

BoundaryAt(t, k) == \E phrase \in BoundaryPhrases : LitAt(t, k, phrase, TRUE)

(* The text after the credits statement the course pattern matched, up to the *)
(* first boundary phrase or the end of the text.                               *)
TextAfterCredits(t) ==
    LET start == re_match(COURSE_RE, t, FALSE).end
        stops == {k \in start..Len(t) : BoundaryAt(t, k)}
        stop == IF stops = {} THEN Len(t) + 1 ELSE SetMin(stops)
    IN  strip(SubSeq(t, start, stop - 1))

(* C4: the description of a record is exactly the text after the credits      *)
(* statement of the course pattern and before the first boundary phrase or    *)
(* the end of the text, so it holds no boundary phrase and is empty when       *)
(* nothing lies between.                                                       *)
C4_DescriptionIsTextAfterCredits ==
    Parsed =>
        /\ ret.value.description = TextAfterCredits(normalize(arg.text))
        /\ \A k \in DOMAIN ret.value.description : ~BoundaryAt(ret.value.description, k)

(* Nothing between the credits statement and the boundary phrase. *)
C4_Witness ==
    /\ Parsed
    /\ TextAfterCredits(normalize(arg.text)) = <<>>
    /\ BoundaryAt(ret.value.description, 1)

(* C5: every key of all_courses is non-empty and is the prefix followed by the *)
(* number of the record stored under it, and that record has no key field.     *)
C5_KeysAreCodes ==
    \A e \in DOMAIN all_courses :
        /\ all_courses[e].key # <<>>
        /\ all_courses[e].key = all_courses[e].value.prefix \o all_courses[e].value.number
        /\ "key" \notin DOMAIN all_courses[e].value

C5_Witness ==
    /\ pc = "done"
    /\ Len(all_courses) > 1
    /\ \E e \in DOMAIN all_courses : Len(all_courses[e].value.number) > 3

(* The records main has folded so far, as scrape_department returned them:     *)
(* those of the departments before, and those of the current department up to  *)
(* the loop's position.                                                        *)
Folded ==
    LET g == Gets
        whole == IF pc = "fold" THEN Len(g) - 1 ELSE Len(g)
        before == Flatten([k \in 1..whole |-> Scraped[g[k].resp].value])
    IN  IF pc = "fold" THEN before \o SubSeq(Scraped[g[Len(g)].resp].value, 1, j - 1)
        ELSE before

LastOf(records, key) == records[SetMax({k \in DOMAIN records : records[k].key = key})]

SameFields(value, record) ==
    \A f \in {"prefix", "number", "title", "credits", "description", "geneds"} :
        value[f] = record[f]

(* C6: all_courses holds one entry for each code folded so far and no other,   *)
(* and the entry's value is the record of that code folded last; so at the end *)
(* of the run a code produced more than once has the record parsed last, and   *)
(* an overwrite changes no other key's value.                                  *)
C6_LastWriterWins ==
    LET records == Folded
        keys == {records[k].key : k \in DOMAIN records}
    IN  /\ {all_courses[e].key : e \in DOMAIN all_courses} = keys
        /\ Len(all_courses) = Cardinality(keys)
        /\ \A e \in DOMAIN all_courses :
              SameFields(all_courses[e].value, LastOf(records, all_courses[e].key))

(* A code of the first department parsed again, differently, in the second,   *)
(* next to another code.                                                       *)
C6_Witness ==
    /\ pc = "done"
    /\ Len(all_courses) > 1
    /\ \E a \in DOMAIN Scraped[Gets[1].resp].value, b \in DOMAIN Scraped[Gets[2].resp].value :
          /\ Scraped[Gets[1].resp].value[a].key = Scraped[Gets[2].resp].value[b].key
          /\ Scraped[Gets[1].resp].value[a] # Scraped[Gets[2].resp].value[b]

(* C7: extract_geneds returns exactly the tags of GENED_PATTERNS that occur in *)
(* the uppercased text, each once, in the order of GENED_PATTERNS.             *)
C7_GenedsInVocabularyOrder ==
    (pc = "return" /\ fn = "extract_geneds") =>
        LET text == upper(arg)
            Occurs(tag) == \E a \in DOMAIN text : \E b \in a..Len(text) : SubSeq(text, a, b) = tag
            IndexOf(tag) == CHOOSE k \in DOMAIN GENED_PATTERNS : GENED_PATTERNS[k] = tag
        IN  /\ ~ret.raised
            /\ Range(ret.value) = {tag \in Range(GENED_PATTERNS) : Occurs(tag)}
            /\ \A a, b \in DOMAIN ret.value :
                  a < b => IndexOf(ret.value[a]) < IndexOf(ret.value[b])

(* FC-GLOBAL, before FC-QUANT in GENED_PATTERNS, written after it and in       *)
(* mixed case.                                                                 *)
C7_Witness ==
    /\ pc = "return"
    /\ fn = "extract_geneds"
    /\ arg = <<"F","C","-","Q","U","A","N","T","f","c","-","G","l","o","b","a","l">>
    /\ ret.value = <<<<"F","C","-","G","L","O","B","A","L">>, <<"F","C","-","Q","U","A","N","T">>>>

(* C8: a sleep of 0.3 s lies between any two fetches, whatever the outcome of  *)
(* the earlier one.                                                            *)
C8_SleepBetweenFetches ==
    \A a, b \in DOMAIN trace :
        (a < b /\ trace[a].op = "get" /\ trace[b].op = "get") =>
            \E c \in (a + 1)..(b - 1) : trace[c].op = "sleep" /\ trace[c].ms = SLEEP_MS

C8_Witness ==
    /\ Len(trace) > 2
    /\ Failed(trace[1])
    /\ trace[2].op = "sleep"
    /\ trace[3].op = "get"

(* C9: the fetches are those of the departments in list order, one each, a     *)
(* failed one not repeated; all of them are made by the time of the export;    *)
(* and when a fetch is about to begin the loop over the records of the         *)
(* department before is over and every one of them is in all_courses.          *)
C9_EachDepartmentOnceInOrder ==
    /\ Len(Gets) = i + (IF pc = "fold" THEN 1 ELSE 0)
    /\ Len(Gets) <= NumDepts
    /\ \A k \in DOMAIN Gets :
          Gets[k].dept = ARTS_SCIENCES_DEPTS[k] /\ Gets[k].url = Url(ARTS_SCIENCES_DEPTS[k])
    /\ Exported => Len(Gets) = NumDepts
    /\ pc = "scrape" =>
          /\ j = Len(courses) + 1
          /\ \A k \in DOMAIN Gets : \A r \in DOMAIN Scraped[Gets[k].resp].value :
                \E e \in DOMAIN all_courses :
                    all_courses[e].key = Scraped[Gets[k].resp].value[r].key

C9_Witness ==
    /\ pc = "scrape"
    /\ i = 1
    /\ Gets[1].resp.ok
    /\ Len(Gets[1].resp.blocks) = MaxBlocks
    /\ Len(all_courses) = 2

Unwritten == \A p \in DOMAIN files : files[p] = None

(* C10: no file is written before every department has been attempted; the    *)
(* run gets to its end, where the export has written once to the primary path *)
(* and then once to the backup path, both with the final mapping.             *)
C10_ExportAfterLastDepartment ==
    /\ [](/\ pc \in {"scrape", "fold", "export"} => Unwritten /\ Writes = <<>>
          /\ ~Unwritten => Len(Gets) = NumDepts /\ i = NumDepts
          /\ pc = "backup" =>
                /\ files["courses.json"] = File(json_dump(all_courses))
                /\ files["courses_backup.json"] = None
                /\ [k \in DOMAIN Writes |-> Writes[k].path] = <<"courses.json">>
          /\ pc = "done" =>
                /\ files["courses.json"] = File(json_dump(all_courses))
                /\ files["courses_backup.json"] = files["courses.json"]
                /\ [k \in DOMAIN Writes |-> Writes[k].path]
                      = <<"courses.json", "courses_backup.json">>
          /\ \A k \in DOMAIN trace : trace[k].op = "write" => k > 2 * NumDepts)
    /\ <>(pc = "done")

C10_Witness ==
    /\ pc = "done"
    /\ \E k \in DOMAIN Gets : Failed(Gets[k])
    /\ Len(files["courses_backup.json"].content) > 1

====
